---- MODULE Spec2Model ----
(***************************************************************************)
(* Model of the stickman avatar engine (src/avatar.js) and of the chat     *)
(* page script that sits next to it (src/unnamed/part_000).                *)
(*                                                                         *)
(* JavaScript numbers are IEEE-754 doubles.  interpolationProgress is the  *)
(* running sum of the double nearest to 0.05, so the model carries doubles *)
(* exactly: a double is a sign and a magnitude, the magnitude an integer   *)
(* count of 2^-57 (the unit in the last place of 0.05) held in four limbs  *)
(* of 20 bits, least significant limb first, and every sum and product is  *)
(* rounded to 53 significant bits, ties to even, as the hardware does.     *)
(*                                                                         *)
(* Left out, because no state of the engine or of the message list depends *)
(* on it: canvas sizing and drawing style, the settings toggles, tabs and  *)
(* notifications of the chat page, and the id, timestamp and language of a *)
(* message.  The Renderer is the frame handed to drawFrame.                *)
(***************************************************************************)
EXTENDS Integers, Sequences, FiniteSets, TLC

\* ------------------------------------------------------------------------
\* IEEE-754 double arithmetic (the arithmetic of every JavaScript number)
\* ------------------------------------------------------------------------
LimbBase == 2^20

BigZero == <<0, 0, 0, 0>>

\* propagate carries (or borrows) so that the three low limbs are in range
Carry(s) ==
    LET l2 == s[2] + (s[1] \div LimbBase)
        l3 == s[3] + (l2 \div LimbBase)
        l4 == s[4] + (l3 \div LimbBase)
    IN  <<s[1] % LimbBase, l2 % LimbBase, l3 % LimbBase, l4>>

BigAdd(a, b) == Carry([i \in 1..4 |-> a[i] + b[i]])

\* a - b, for a >= b
BigSub(a, b) == Carry([i \in 1..4 |-> a[i] - b[i]])

\* a * d, for a small natural d (d < 2^10)
BigMulSmall(a, d) == Carry([i \in 1..4 |-> a[i] * d])

BigLess(a, b) ==
    \E i \in 1..4 : a[i] < b[i] /\ \A j \in (i+1)..4 : a[j] = b[j]

\* number of significant bits of a limb
BitLen(n) == IF n = 0 THEN 0 ELSE CHOOSE k \in 1..31 : 2^(k-1) <= n /\ n < 2^k

BigBitLen(a) ==
    IF a[4] > 0 THEN 60 + BitLen(a[4])
    ELSE IF a[3] > 0 THEN 40 + BitLen(a[3])
    ELSE IF a[2] > 0 THEN 20 + BitLen(a[2])
    ELSE BitLen(a[1])

\* round an exact magnitude to 53 significant bits, nearest, ties to even
Round53(a) ==
    LET len == BigBitLen(a)
    IN  IF len <= 53 THEN a
        ELSE LET u == 2^(len - 53)
                 r == a[1] % u
                 q == a[1] \div u
                 down == [a EXCEPT ![1] = a[1] - r]
                 up == Carry([a EXCEPT ![1] = a[1] - r + u])
             IN  IF 2 * r > u \/ (2 * r = u /\ q % 2 = 1) THEN up ELSE down

Dbl(neg, mag) == [neg |-> neg /\ mag # BigZero, mag |-> mag]

DZero == Dbl(FALSE, BigZero)

\* the double of a small integer n: n * 2^57 units
FromInt(n) ==
    LET m == IF n < 0 THEN -n ELSE n
    IN  Dbl(n < 0, Carry(<<0, 0, m * 2^17, 0>>))

DOne == FromInt(1)

\* a + b in double arithmetic
DAdd(a, b) ==
    IF a.neg = b.neg THEN Dbl(a.neg, Round53(BigAdd(a.mag, b.mag)))
    ELSE IF BigLess(a.mag, b.mag) THEN Dbl(b.neg, Round53(BigSub(b.mag, a.mag)))
    ELSE Dbl(a.neg, Round53(BigSub(a.mag, b.mag)))

\* d * t in double arithmetic, for a small integer d
DMulInt(d, t) ==
    LET m == IF d < 0 THEN -d ELSE d
    IN  Dbl((d < 0) # t.neg, Round53(BigMulSmall(t.mag, m)))

\* a > b
DGreater(a, b) ==
    IF a.neg # b.neg THEN b.neg
    ELSE IF a.neg THEN BigLess(a.mag, b.mag)
    ELSE BigLess(b.mag, a.mag)

\* ------------------------------------------------------------------------
\* JavaScript values
\* ------------------------------------------------------------------------
Null == [type |-> "null"]

Undefined == [type |-> "undefined"]

\* the truth value JavaScript gives a value in a condition, || or ?:
Truthy(v) == v.type = "object"

\* ------------------------------------------------------------------------
\* Strings: sequences of one-character strings
\* ------------------------------------------------------------------------
LowerCase == <<"b", "d", "e", "h", "i", "l", "o", "y">>

UpperCase == <<"B", "D", "E", "H", "I", "L", "O", "Y">>

IndexIn(c, s) == CHOOSE i \in 1..Len(s) : s[i] = c

IsIn(c, s) == \E i \in 1..Len(s) : s[i] = c

CharUpper(c) == IF IsIn(c, LowerCase) THEN UpperCase[IndexIn(c, LowerCase)] ELSE c

CharLower(c) == IF IsIn(c, UpperCase) THEN LowerCase[IndexIn(c, UpperCase)] ELSE c

toUpperCase(s) == [i \in 1..Len(s) |-> CharUpper(s[i])]

toLowerCase(s) == [i \in 1..Len(s) |-> CharLower(s[i])]

\* s.charAt(0): the first character, or the empty string
charAt0(s) == IF Len(s) = 0 THEN <<>> ELSE <<s[1]>>

\* s.slice(1)
slice1(s) == SubSeq(s, 2, Len(s))

RECURSIVE trimStart(_)
trimStart(s) == IF Len(s) > 0 /\ s[1] = " " THEN trimStart(Tail(s)) ELSE s

RECURSIVE trimEnd(_)
trimEnd(s) ==
    IF Len(s) > 0 /\ s[Len(s)] = " " THEN trimEnd(SubSeq(s, 1, Len(s) - 1)) ELSE s

\* s.trim()
trim(s) == trimEnd(trimStart(s))

T_idle == <<"i", "d", "l", "e">>

T_Hello == <<"H", "e", "l", "l", "o">>

T_hello == <<"h", "e", "l", "l", "o">>

T_HELLO == <<"H", "E", "L", "L", "O">>

T_hEllo == <<"h", "E", "l", "l", "o">>

T_Bye == <<"B", "y", "e">>

T_bye == <<"b", "y", "e">>

T_hi == <<"h", "i">>

T_padded == <<" ", "h", "e", "l", "l", "o", " ">>

T_blank == <<" ">>

\* the texts a caller passes to playSign and setPose
Texts == {<<>>, T_idle, T_Hello, T_hello, T_HELLO, T_bye, T_hi}

\* the values the message field can hold when Play is clicked
FieldValues == {<<>>, T_blank, T_padded, T_hEllo}

\* ------------------------------------------------------------------------
\* Poses and catalogs
\* ------------------------------------------------------------------------
Pt(px, py) == [x |-> px, y |-> py]

\* the frame of the built-in idle pose
FallbackFrame ==
    [head |-> Pt(200, 80), neck |-> Pt(200, 110),
     leftShoulder |-> Pt(170, 120), rightShoulder |-> Pt(230, 120),
     leftElbow |-> Pt(160, 160), rightElbow |-> Pt(240, 160),
     leftWrist |-> Pt(160, 200), rightWrist |-> Pt(240, 200),
     spine |-> Pt(200, 180), hip |-> Pt(200, 220),
     leftHip |-> Pt(180, 220), rightHip |-> Pt(220, 220),
     leftKnee |-> Pt(180, 270), rightKnee |-> Pt(220, 270),
     leftAnkle |-> Pt(180, 320), rightAnkle |-> Pt(220, 320)]

Pose(frame) == [type |-> "object", frames |-> <<frame>>]

Catalog(entries) == [type |-> "object", entries |-> entries]

\* the catalog installed by the catch block of loadPoses
FallbackCatalog == Catalog((T_idle :> Pose(FallbackFrame)))

\* poses a poses.json can hold: a raised right hand, a raised left hand
HelloFrame ==
    [FallbackFrame EXCEPT !.rightElbow = Pt(250, 130), !.rightWrist = Pt(270, 80)]

ByeFrame ==
    [FallbackFrame EXCEPT !.leftElbow = Pt(150, 130), !.leftWrist = Pt(131, 83)]

FileIdleFrame ==
    [FallbackFrame EXCEPT !.leftWrist = Pt(165, 205), !.rightWrist = Pt(235, 205)]

T_Hi == <<"H", "i">>

\* a frame with a joint the other frames do not have
TailFrame == FallbackFrame @@ [tail |-> Pt(200, 240)]

\* the values response.json() can resolve to: a resource with a poses
\* object (with or without an idle entry, with or without a pose whose
\* joints differ from the others'), an object without poses, null
ParsedResources ==
    { [type |-> "object",
       poses |-> Catalog((T_idle :> Pose(FileIdleFrame)) @@ (T_Hello :> Pose(HelloFrame)))],
      [type |-> "object",
       poses |-> Catalog((T_idle :> Pose(FileIdleFrame)) @@ (T_Hello :> Pose(HelloFrame))
                         @@ (T_Bye :> Pose(ByeFrame)))],
      [type |-> "object", poses |-> Catalog((T_Hello :> Pose(HelloFrame)))],
      [type |-> "object",
       poses |-> Catalog((T_idle :> Pose(FileIdleFrame)) @@ (T_Hi :> Pose(TailFrame)))],
      [type |-> "object", poses |-> Undefined],
      Null }

\* obj[key] on a catalog object
Get(cat, key) == IF key \in DOMAIN cat.entries THEN cat.entries[key] ELSE Undefined

\* ------------------------------------------------------------------------
\* Bounds of the model
\* ------------------------------------------------------------------------
\* the tick counter stops counting here
MaxTicks == 22

\* messages the user sends in one run of the chat page
MaxSends == 2

\* ------------------------------------------------------------------------
\* State
\* ------------------------------------------------------------------------
VARIABLES
    loadPc,                 \* where init() is: "fetching", "parsing", "loaded", "failed"
    poses,                  \* this.poses
    currentPose,            \* this.currentPose
    targetPose,             \* this.targetPose
    interpolationProgress,  \* this.interpolationProgress, a double
    frameCallbacks,         \* callbacks requestAnimationFrame holds for animate
    drawn,                  \* the frame the last step handed to drawFrame, if any
    wired,                  \* the DOMContentLoaded listener of avatar.js has run
    lastCall,               \* the last call of playSign or setPose from outside
    errors,                 \* the engine's own steps that ended in an uncaught error
    ticks,                  \* runs of animate since the last call, up to MaxTicks
    lastStep,               \* the operation that made the last step
    chatReady,              \* the DOMContentLoaded listener of the chat script has run
    messages,               \* state.messages
    isSigning,              \* state.isSigning
    avatarStatus,           \* the text of the avatar status element
    timers,                 \* the setTimeout callbacks of simulateAvatarResponse that
                            \* are pending: their delay and the text they hold
    chatArea,               \* the number of .message elements in the chat area
    chatHistory,            \* localStorage item 'chatHistory', once the script has read it
    sends,                  \* messages accepted so far, up to MaxSends
    lerpA,                  \* lerpFrames on its own: frameA
    lerpB,                  \* frameB
    lerpT,                  \* t
    lerpResult              \* the frame lerpFrames returned, once it has run

engineVars == <<loadPc, poses, currentPose, targetPose, interpolationProgress,
                frameCallbacks, drawn, wired, lastCall, errors, ticks>>

chatVars == <<chatReady, messages, isSigning, avatarStatus, timers,
              chatArea, chatHistory, sends>>

lerpVars == <<lerpA, lerpB, lerpT, lerpResult>>

vars == <<engineVars, lastStep, chatVars, lerpVars>>

\* a speed of 1/32
interpolationSpeed_slow == Dbl(FALSE, <<0, 0, 4096, 0>>)

\* the double nearest to 0.05: 0x1999999999999A * 2^-57
interpolationSpeed == Dbl(FALSE, <<629146, 629145, 6553, 0>>)

\* the fields of the engine object, as a record the methods work on
Engine ==
    [poses |-> poses, currentPose |-> currentPose, targetPose |-> targetPose,
     interpolationProgress |-> interpolationProgress,
     frameCallbacks |-> frameCallbacks, drawn |-> Null, threw |-> FALSE]

\* a constructor that installs the built-in catalog and starts the loop itself
constructor_ticking ==
    [poses |-> FallbackCatalog, currentPose |-> Pose(FallbackFrame),
     targetPose |-> Pose(FallbackFrame), interpolationProgress |-> DZero,
     frameCallbacks |-> 1, drawn |-> Null, threw |-> FALSE]

\* the fields as the constructor leaves them
constructor ==
    [poses |-> Null, currentPose |-> Null, targetPose |-> Null,
     interpolationProgress |-> DZero, frameCallbacks |-> 0, drawn |-> Null,
     threw |-> FALSE]

\* a || b
Or(a, b) == IF Truthy(a) THEN a ELSE b

\* a setPose that normalizes the name the way playSign does
setPose_normalizing(e, poseName) ==
    IF ~Truthy(e.poses) THEN [e EXCEPT !.threw = TRUE]
    ELSE LET given == IF poseName # <<>>
                      THEN toUpperCase(charAt0(poseName)) \o toLowerCase(slice1(poseName))
                      ELSE poseName
             name == IF ~Truthy(Get(e.poses, given)) THEN T_idle ELSE given
             target == Get(e.poses, name)
         IN  [e EXCEPT !.targetPose = target,
                       !.currentPose = Or(e.currentPose, target),
                       !.interpolationProgress = DZero]

\* setPose(poseName); reading a property of null raises a TypeError
setPose(e, poseName) ==
    IF ~Truthy(e.poses) THEN [e EXCEPT !.threw = TRUE]
    ELSE LET name == IF ~Truthy(Get(e.poses, poseName)) THEN T_idle ELSE poseName
             target == Get(e.poses, name)
         IN  [e EXCEPT !.targetPose = target,
                       !.currentPose = Or(e.currentPose, target),
                       !.interpolationProgress = DZero]

\* playSign without the toLowerCase() of the remainder
playSign_keepCase(e, signName) ==
    LET name == IF signName # <<>>
                THEN toUpperCase(charAt0(signName)) \o slice1(signName)
                ELSE signName
    IN  IF ~Truthy(e.poses) THEN [e EXCEPT !.threw = TRUE]
        ELSE setPose(e, IF Truthy(Get(e.poses, name)) THEN name ELSE T_idle)

\* playSign(signName)
playSign(e, signName) ==
    LET name == IF signName # <<>>
                THEN toUpperCase(charAt0(signName)) \o toLowerCase(slice1(signName))
                ELSE signName
    IN  IF ~Truthy(e.poses) THEN [e EXCEPT !.threw = TRUE]
        ELSE setPose(e, IF Truthy(Get(e.poses, name)) THEN name ELSE T_idle)

\* a lerpFrames that scales frameB instead of the difference of the frames
lerpFrames_noDifference(frameA, frameB, t) ==
    [key \in DOMAIN frameA |->
        [x |-> DAdd(FromInt(frameA[key].x), DMulInt(frameB[key].x, t)),
         y |-> DAdd(FromInt(frameA[key].y), DMulInt(frameB[key].y, t))]]

\* lerpFrames(frameA, frameB, t), for frames where frameB has every joint of frameA
lerpFrames(frameA, frameB, t) ==
    [key \in DOMAIN frameA |->
        [x |-> DAdd(FromInt(frameA[key].x),
                    DMulInt(frameB[key].x - frameA[key].x, t)),
         y |-> DAdd(FromInt(frameA[key].y),
                    DMulInt(frameB[key].y - frameA[key].y, t))]]

\* drawFrame(frame): the frame reaches the canvas; reading x of a joint the
\* frame does not have raises a TypeError
drawFrame(e, frame) ==
    IF DOMAIN FallbackFrame \subseteq DOMAIN frame
    THEN [e EXCEPT !.drawn = [type |-> "object", joints |-> frame]]
    ELSE [e EXCEPT !.threw = TRUE]

\* animate that makes the target current without resetting the progress
animate_noReset(e) ==
    IF ~Truthy(e.currentPose) \/ ~Truthy(e.targetPose) THEN e
    ELSE LET framesA == e.currentPose.frames[1]
             framesB == e.targetPose.frames[1]
             sum == DAdd(e.interpolationProgress, interpolationSpeed)
             wrap == DGreater(sum, DOne)
             e1 == [e EXCEPT !.interpolationProgress = sum,
                             !.currentPose = IF wrap THEN e.targetPose
                                             ELSE e.currentPose]
         IN  IF ~(DOMAIN framesA \subseteq DOMAIN framesB)
             THEN [e1 EXCEPT !.threw = TRUE]
             ELSE LET e2 == drawFrame(e1, lerpFrames(framesA, framesB,
                                                     e1.interpolationProgress))
                  IN  IF e2.threw THEN e2
                      ELSE [e2 EXCEPT !.frameCallbacks = e2.frameCallbacks + 1]

\* animate that resets the progress without making the target current
animate_noCommit(e) ==
    IF ~Truthy(e.currentPose) \/ ~Truthy(e.targetPose) THEN e
    ELSE LET framesA == e.currentPose.frames[1]
             framesB == e.targetPose.frames[1]
             sum == DAdd(e.interpolationProgress, interpolationSpeed)
             wrap == DGreater(sum, DOne)
             e1 == [e EXCEPT !.interpolationProgress = IF wrap THEN DZero ELSE sum]
         IN  IF ~(DOMAIN framesA \subseteq DOMAIN framesB)
             THEN [e1 EXCEPT !.threw = TRUE]
             ELSE LET e2 == drawFrame(e1, lerpFrames(framesA, framesB,
                                                     e1.interpolationProgress))
                  IN  IF e2.threw THEN e2
                      ELSE [e2 EXCEPT !.frameCallbacks = e2.frameCallbacks + 1]

\* animate(): one tick, then the next one is requested
animate(e) ==
    IF ~Truthy(e.currentPose) \/ ~Truthy(e.targetPose) THEN e
    ELSE LET framesA == e.currentPose.frames[1]
             framesB == e.targetPose.frames[1]
             sum == DAdd(e.interpolationProgress, interpolationSpeed)
             wrap == DGreater(sum, DOne)
             e1 == [e EXCEPT !.interpolationProgress = IF wrap THEN DZero ELSE sum,
                             !.currentPose = IF wrap THEN e.targetPose
                                             ELSE e.currentPose]
         IN  IF ~(DOMAIN framesA \subseteq DOMAIN framesB)
             THEN [e1 EXCEPT !.threw = TRUE]
             ELSE LET e2 == drawFrame(e1, lerpFrames(framesA, framesB,
                                                     e1.interpolationProgress))
                  IN  IF e2.threw THEN e2
                      ELSE [e2 EXCEPT !.frameCallbacks = e2.frameCallbacks + 1]

\* a catch block that only logs
loadPosesCatch_logOnly(e) == e

\* the catch block of loadPoses
loadPosesCatch(e) == [e EXCEPT !.poses = FallbackCatalog]

\* the rest of loadPoses once response.json() has resolved to data:
\* data.poses of null and Object.keys of undefined raise, and are caught
loadPoses(e, data) ==
    IF ~Truthy(data) THEN loadPosesCatch(e)
    ELSE IF ~Truthy(data.poses) THEN loadPosesCatch([e EXCEPT !.poses = data.poses])
    ELSE [e EXCEPT !.poses = data.poses]

\* init() after await this.loadPoses(): setPose('idle'), then animate()
init(e) ==
    LET e1 == setPose(e, T_idle)
    IN  IF e1.threw THEN e1 ELSE animate(e1)

\* the engine fields take the values of record e
Install(e) ==
    /\ poses' = e.poses
    /\ currentPose' = e.currentPose
    /\ targetPose' = e.targetPose
    /\ interpolationProgress' = e.interpolationProgress
    /\ frameCallbacks' = e.frameCallbacks
    /\ drawn' = e.drawn

\* ------------------------------------------------------------------------
\* The chat page
\* ------------------------------------------------------------------------
\* the longest message sendMessage accepts
MaxMessageLength == 500

\* the number of messages displayMessage keeps
MaxMessages == 25

\* the first characters of a message the system message quotes
QuoteLength == 30

LongText == [i \in 1..(MaxMessageLength + 1) |-> "x"]

\* the values the message input can hold when the user sends
InputValues == {<<>>, T_blank, T_padded, T_bye, LongText}

UserMessage(text) == [type |-> "user", text |-> text]

\* the system message simulateAvatarResponse builds for text
SystemMessage(text) ==
    [type |-> "system",
     text |-> <<"Converting \"">>
              \o SubSeq(text, 1, IF Len(text) > QuoteLength THEN QuoteLength ELSE Len(text))
              \o (IF Len(text) > QuoteLength THEN <<"...">> ELSE <<>>)
              \o <<"\" to sign language.">>]

\* what localStorage can hold under 'chatHistory' when the page opens:
\* nothing, text that is not JSON, an empty list, a short list, a list
\* longer than MaxMessages
StoredHistories ==
    { Null,
      [type |-> "invalid"],
      [type |-> "object", list |-> <<>>],
      [type |-> "object", list |-> <<UserMessage(T_bye), SystemMessage(T_bye)>>],
      [type |-> "object",
       list |-> [i \in 1..(MaxMessages + 2) |->
                    IF i % 2 = 1 THEN UserMessage(T_hi) ELSE SystemMessage(T_hi)]] }

\* the state object of the chat script as the script leaves it
state == [messages |-> <<>>, isSigning |-> FALSE]

\* the fields of the chat page, as a record the functions work on
Chat ==
    [messages |-> messages, isSigning |-> isSigning, avatarStatus |-> avatarStatus,
     timers |-> timers,
     chatArea |-> chatArea, chatHistory |-> chatHistory]

\* list.slice(-n)
sliceLast(list, n) ==
    IF Len(list) > n THEN SubSeq(list, Len(list) - n + 1, Len(list)) ELSE list

\* a displayMessage that cuts the view but not state.messages
displayMessage_noTrim(c, message) ==
    [c EXCEPT !.chatArea = IF c.chatArea + 1 > MaxMessages THEN MaxMessages
                           ELSE c.chatArea + 1]

\* displayMessage(message): one more element, then both lists are cut
displayMessage(c, message) ==
    [c EXCEPT !.chatArea = IF c.chatArea + 1 > MaxMessages THEN MaxMessages
                           ELSE c.chatArea + 1,
              !.messages = sliceLast(c.messages, MaxMessages)]

updateAvatarStatus(c, statusText) == [c EXCEPT !.avatarStatus = statusText]

\* a pending setTimeout callback: its delay and the text it closes over
Timer(ms, text) == [ms |-> ms, text |-> text]

\* list without its i-th element
Remove(list, i) == SubSeq(list, 1, i - 1) \o SubSeq(list, i + 1, Len(list))

\* simulateAvatarResponse without the isSigning guard
simulateAvatarResponse_noGuard(c, text) ==
    [updateAvatarStatus(c, "Processing")
        EXCEPT !.isSigning = TRUE, !.timers = Append(c.timers, Timer(500, text))]

\* simulateAvatarResponse(text) up to its setTimeout
simulateAvatarResponse(c, text) ==
    IF c.isSigning THEN c
    ELSE [updateAvatarStatus(c, "Processing")
            EXCEPT !.isSigning = TRUE, !.timers = Append(c.timers, Timer(500, text))]

\* sendMessage() with the message input holding value
sendMessage(c, value) ==
    LET messageText == trim(value)
    IN  IF messageText = <<>> THEN c
        ELSE IF Len(messageText) > MaxMessageLength THEN c
        ELSE LET message == UserMessage(messageText)
                 c1 == [c EXCEPT !.messages = Append(c.messages, message)]
                 c2 == displayMessage(c1, message)
                 c3 == simulateAvatarResponse(c2, messageText)
             IN  [c3 EXCEPT !.chatHistory = [type |-> "object", list |-> c3.messages]]

\* the callback of the 500 ms timer, pending as timer i
responseCallback(c, i) ==
    LET text == c.timers[i].text
        c1 == updateAvatarStatus(c, "Signing...")
        systemMessage == SystemMessage(text)
        c2 == [c1 EXCEPT !.messages = Append(c1.messages, systemMessage)]
        c3 == displayMessage(c2, systemMessage)
    IN  [c3 EXCEPT !.timers = Append(Remove(c3.timers, i), Timer(1500, text))]

\* the callback of the 1500 ms timer, pending as timer i
readyCallback(c, i) ==
    [updateAvatarStatus(c, "Ready")
        EXCEPT !.isSigning = FALSE, !.timers = Remove(c.timers, i)]

clearChat(c) == [c EXCEPT !.messages = <<>>, !.chatArea = 0, !.chatHistory = Null]

RECURSIVE displayAll(_, _)
displayAll(c, list) ==
    IF list = <<>> THEN c ELSE displayAll(displayMessage(c, Head(list)), Tail(list))

\* the chat history part of loadPreferences
loadPreferences(c) ==
    IF c.chatHistory.type = "object" /\ Len(c.chatHistory.list) > 0
    THEN LET c1 == [c EXCEPT !.messages = sliceLast(c.chatHistory.list, MaxMessages)]
         IN  displayAll(c1, c1.messages)
    ELSE c

InstallChat(c) ==
    /\ messages' = c.messages
    /\ isSigning' = c.isSigning
    /\ avatarStatus' = c.avatarStatus
    /\ timers' = c.timers
    /\ chatArea' = c.chatArea
    /\ chatHistory' = c.chatHistory

NoCall == [op |-> "none", arg |-> <<>>, threw |-> FALSE]

Init ==
    /\ poses = constructor.poses
    /\ currentPose = constructor.currentPose
    /\ targetPose = constructor.targetPose
    /\ interpolationProgress = constructor.interpolationProgress
    /\ frameCallbacks = constructor.frameCallbacks
    /\ drawn = constructor.drawn
    /\ loadPc = "fetching"
    /\ wired = FALSE
    /\ lastCall = NoCall
    /\ errors = {}
    /\ ticks = 0
    /\ lastStep = "constructor"
    /\ chatReady = FALSE
    /\ messages = state.messages
    /\ isSigning = state.isSigning
    /\ avatarStatus = <<>>
    /\ timers = <<>>
    /\ chatArea = 0
    /\ chatHistory = Null
    /\ sends = 0
    /\ lerpA = FallbackFrame
    /\ lerpB = FallbackFrame
    /\ lerpT = DZero
    /\ lerpResult = Null

\* ------------------------------------------------------------------------
\* Steps of the engine
\* ------------------------------------------------------------------------
Count(n) == IF n < MaxTicks THEN n + 1 ELSE n

Called(op, arg, e) == [op |-> op, arg |-> arg, threw |-> e.threw]

Raised(op, e) == IF e.threw THEN errors \cup {op} ELSE errors

\* fetch('poses.json') rejects: the catch block runs, then init goes on
FetchRejects ==
    /\ loadPc = "fetching"
    /\ LET e == init(loadPosesCatch(Engine))
       IN  /\ Install(e)
           /\ errors' = Raised("init", e)
    /\ loadPc' = "failed"
    /\ ticks' = Count(0)
    /\ lastStep' = "init"
    /\ UNCHANGED <<wired, lastCall>>
    /\ UNCHANGED <<chatVars, lerpVars>>

\* fetch resolves to a response; loadPoses waits for response.json()
FetchResolves ==
    /\ loadPc = "fetching"
    /\ loadPc' = "parsing"
    /\ lastStep' = "fetch"
    /\ drawn' = Null
    /\ UNCHANGED <<poses, currentPose, targetPose, interpolationProgress,
                   frameCallbacks, wired, lastCall, errors, ticks>>
    /\ UNCHANGED <<chatVars, lerpVars>>

\* response.json() rejects: the body is not JSON
JsonRejects ==
    /\ loadPc = "parsing"
    /\ LET e == init(loadPosesCatch(Engine))
       IN  /\ Install(e)
           /\ errors' = Raised("init", e)
    /\ loadPc' = "failed"
    /\ ticks' = Count(0)
    /\ lastStep' = "init"
    /\ UNCHANGED <<wired, lastCall>>
    /\ UNCHANGED <<chatVars, lerpVars>>

\* response.json() resolves to data
JsonResolves ==
    /\ loadPc = "parsing"
    /\ \E data \in ParsedResources :
          LET e == init(loadPoses(Engine, data))
          IN  /\ Install(e)
              /\ errors' = Raised("init", e)
              /\ loadPc' = IF Truthy(data) /\ Truthy(data.poses) THEN "loaded" ELSE "failed"
    /\ ticks' = Count(0)
    /\ lastStep' = "init"
    /\ UNCHANGED <<wired, lastCall>>
    /\ UNCHANGED <<chatVars, lerpVars>>

\* the browser runs the frame callback animate asked for
AnimationFrame ==
    /\ frameCallbacks > 0
    /\ LET e == animate([Engine EXCEPT !.frameCallbacks = frameCallbacks - 1])
       IN  /\ Install(e)
           /\ errors' = Raised("animate", e)
    /\ ticks' = Count(ticks)
    /\ lastStep' = "animate"
    /\ UNCHANGED <<loadPc, wired, lastCall>>
    /\ UNCHANGED <<chatVars, lerpVars>>

\* the page calls stickmanAvatar.playSign(text)
CallPlaySign ==
    /\ \E text \in Texts :
          LET e == playSign(Engine, text)
          IN  /\ Install(e)
              /\ lastCall' = Called("playSign", text, e)
    /\ ticks' = 0
    /\ lastStep' = "playSign"
    /\ UNCHANGED <<loadPc, wired, errors>>
    /\ UNCHANGED <<chatVars, lerpVars>>

\* the page calls stickmanAvatar.setPose(name)
CallSetPose ==
    /\ \E name \in Texts :
          LET e == setPose(Engine, name)
          IN  /\ Install(e)
              /\ lastCall' = Called("setPose", name, e)
    /\ ticks' = 0
    /\ lastStep' = "setPose"
    /\ UNCHANGED <<loadPc, wired, errors>>
    /\ UNCHANGED <<chatVars, lerpVars>>

\* DOMContentLoaded: the Play and Reset buttons get their listeners
DOMContentLoaded ==
    /\ ~wired
    /\ wired' = TRUE
    /\ lastStep' = "DOMContentLoaded"
    /\ drawn' = Null
    /\ UNCHANGED <<loadPc, poses, currentPose, targetPose, interpolationProgress,
                   frameCallbacks, lastCall, errors, ticks>>
    /\ UNCHANGED <<chatVars, lerpVars>>

\* a click on Play: the trimmed message field, or 'idle' when that is empty
PlayClick ==
    /\ wired
    /\ \E value \in FieldValues :
          LET msg == IF trim(value) # <<>> THEN trim(value) ELSE T_idle
              e == playSign(Engine, msg)
          IN  /\ Install(e)
              /\ lastCall' = Called("playSign", msg, e)
    /\ ticks' = 0
    /\ lastStep' = "play"
    /\ UNCHANGED <<loadPc, wired, errors>>
    /\ UNCHANGED <<chatVars, lerpVars>>

\* a click on Reset
ResetClick ==
    /\ wired
    /\ LET e == playSign(Engine, T_idle)
       IN  /\ Install(e)
           /\ lastCall' = Called("playSign", T_idle, e)
    /\ ticks' = 0
    /\ lastStep' = "reset"
    /\ UNCHANGED <<loadPc, wired, errors>>
    /\ UNCHANGED <<chatVars, lerpVars>>

Next ==
    \/ FetchRejects
    \/ FetchResolves
    \/ JsonRejects
    \/ JsonResolves
    \/ AnimationFrame
    \/ CallPlaySign
    \/ CallSetPose
    \/ DOMContentLoaded
    \/ PlayClick
    \/ ResetClick

Spec == Init /\ [][Next]_vars

\* ------------------------------------------------------------------------
\* Steps of the chat page
\* ------------------------------------------------------------------------
\* a step of the chat page makes no call on the engine
EngineUntouched ==
    /\ drawn' = Null
    /\ UNCHANGED <<loadPc, poses, currentPose, targetPose, interpolationProgress,
                   frameCallbacks, wired, lastCall, errors, ticks>>

\* DOMContentLoaded of the chat script: listeners, preferences, status Ready
ChatLoaded ==
    /\ ~chatReady
    /\ chatReady' = TRUE
    /\ \E stored \in StoredHistories :
          InstallChat(updateAvatarStatus(
                          loadPreferences([Chat EXCEPT !.chatHistory = stored]), "Ready"))
    /\ lastStep' = "chatLoaded"
    /\ UNCHANGED sends
    /\ EngineUntouched
    /\ UNCHANGED lerpVars

\* a sendMessage that hands the accepted text to the engine
SendMessage_playSign ==
    /\ chatReady
    /\ sends < MaxSends
    /\ \E value \in InputValues :
          LET c == sendMessage(Chat, value)
              e == playSign(Engine, trim(value))
          IN  /\ InstallChat(c)
              /\ sends' = IF c.messages # messages THEN sends + 1 ELSE sends
              /\ IF c.messages # messages
                 THEN /\ Install(e)
                      /\ lastCall' = Called("playSign", trim(value), e)
                      /\ ticks' = 0
                      /\ UNCHANGED <<loadPc, wired, errors>>
                 ELSE EngineUntouched
    /\ lastStep' = "sendMessage"
    /\ UNCHANGED <<chatReady, lerpVars>>

\* a click on Send, or Enter in the message input
SendMessage ==
    /\ chatReady
    /\ sends < MaxSends
    /\ \E value \in InputValues :
          LET c == sendMessage(Chat, value)
          IN  /\ InstallChat(c)
              /\ sends' = IF c.messages # messages THEN sends + 1 ELSE sends
    /\ lastStep' = "sendMessage"
    /\ UNCHANGED chatReady
    /\ EngineUntouched
    /\ UNCHANGED lerpVars

\* the 500 ms timer of simulateAvatarResponse fires
ResponseTimer ==
    /\ \E i \in 1..Len(timers) :
          /\ timers[i].ms = 500
          /\ InstallChat(responseCallback(Chat, i))
    /\ lastStep' = "responseCallback"
    /\ UNCHANGED <<chatReady, sends>>
    /\ EngineUntouched
    /\ UNCHANGED lerpVars

\* the 1500 ms timer fires
ReadyTimer ==
    /\ \E i \in 1..Len(timers) :
          /\ timers[i].ms = 1500
          /\ InstallChat(readyCallback(Chat, i))
    /\ lastStep' = "readyCallback"
    /\ UNCHANGED <<chatReady, sends>>
    /\ EngineUntouched
    /\ UNCHANGED lerpVars

\* a click on Clear
ClearChat ==
    /\ chatReady
    /\ InstallChat(clearChat(Chat))
    /\ lastStep' = "clearChat"
    /\ UNCHANGED <<chatReady, sends>>
    /\ EngineUntouched
    /\ UNCHANGED lerpVars

\* the page: the chat script next to an engine whose load fails or succeeds
NextChat ==
    \/ ChatLoaded
    \/ SendMessage
    \/ ResponseTimer
    \/ ReadyTimer
    \/ ClearChat
    \/ FetchRejects
    \/ AnimationFrame

SpecChat == Init /\ [][NextChat]_vars

\* ------------------------------------------------------------------------
\* Properties
\* ------------------------------------------------------------------------
LoadPending == loadPc \in {"fetching", "parsing"}

\* text with its first character in upper case and the rest in lower case
Normalized(text) ==
    IF text = <<>> THEN text
    ELSE <<CharUpper(text[1])>> \o [i \in 1..(Len(text) - 1) |-> CharLower(text[i + 1])]

\* C1: playSign never raises an error to its caller, in any state of the
\* engine, the states before the pose load has completed included.
C1_PlaySignNeverRaises == lastCall.op = "playSign" => ~lastCall.threw

C3_EarlyPlaySignTargetsIdle ==
    (LoadPending /\ lastCall.op = "playSign") => targetPose = Pose(FallbackFrame)

\* C4: for any catalog the loader installs and any text whose normalized
\* form is not a key of it, playSign sets targetPose to the catalog's idle
\* pose, never to undefined.
C4_UnknownTextTargetsIdle ==
    (lastCall.op = "playSign" /\ ~lastCall.threw
     /\ Normalized(lastCall.arg) \notin DOMAIN poses.entries)
    => (Truthy(targetPose) /\ targetPose = Get(poses, T_idle))

\* C5: the target playSign selects depends on the text only up to letter
\* case: it is the catalog entry under the capitalised case-folded text if
\* there is one and the catalog's idle entry otherwise.
C5_CaseInsensitive ==
    (lastCall.op = "playSign" /\ ~lastCall.threw) =>
        LET key == Normalized(toLowerCase(lastCall.arg))
        IN  targetPose = IF key \in DOMAIN poses.entries THEN poses.entries[key]
                         ELSE Get(poses, T_idle)

C5_Witness ==
    lastCall = [op |-> "playSign", arg |-> T_HELLO, threw |-> FALSE]
    /\ targetPose = Pose(HelloFrame)

\* the idle skeleton the specification lists for the fallback catalog
C6_Skeleton ==
    [head |-> [x |-> 200, y |-> 80], neck |-> [x |-> 200, y |-> 110],
     leftShoulder |-> [x |-> 170, y |-> 120], rightShoulder |-> [x |-> 230, y |-> 120],
     leftElbow |-> [x |-> 160, y |-> 160], rightElbow |-> [x |-> 240, y |-> 160],
     leftWrist |-> [x |-> 160, y |-> 200], rightWrist |-> [x |-> 240, y |-> 200],
     spine |-> [x |-> 200, y |-> 180], hip |-> [x |-> 200, y |-> 220],
     leftHip |-> [x |-> 180, y |-> 220], rightHip |-> [x |-> 220, y |-> 220],
     leftKnee |-> [x |-> 180, y |-> 270], rightKnee |-> [x |-> 220, y |-> 270],
     leftAnkle |-> [x |-> 180, y |-> 320], rightAnkle |-> [x |-> 220, y |-> 320]]

\* C6: after a failed load (network, parse, no poses object) no error has
\* left init, the catalog has the single entry idle with the built-in
\* 16-joint skeleton, currentPose and targetPose are that pose and one frame
\* callback is armed.
C6_FailedLoadInstallsFallback ==
    loadPc = "failed" =>
        /\ errors = {}
        /\ Truthy(poses)
        /\ DOMAIN poses.entries = {T_idle}
        /\ Cardinality(DOMAIN C6_Skeleton) = 16
        /\ poses.entries[T_idle].frames = <<C6_Skeleton>>
        /\ currentPose = poses.entries[T_idle]
        /\ targetPose = poses.entries[T_idle]
        /\ frameCallbacks = 1

C6_Witness == loadPc = "failed" /\ lastStep = "init" /\ Truthy(drawn)

\* C7 as stated: every message sendMessage accepts results in a call of the
\* engine's playSign with the text of that message.
C7_SendCallsPlaySign ==
    [][(lastStep' = "sendMessage" /\ messages' # messages) =>
          (lastCall'.op = "playSign"
           /\ lastCall'.arg = messages'[Len(messages')].text)]_vars

\* C7: sendMessage makes no call on the engine: a message it accepts leaves
\* the record of the last playSign call, the catalog, both poses, the
\* progress and the armed frame callbacks as they were.
C7_SendLeavesEngineAlone ==
    [][lastStep' = "sendMessage" =>
          UNCHANGED <<lastCall, poses, currentPose, targetPose,
                      interpolationProgress, frameCallbacks, ticks>>]_vars

C7_Witness ==
    /\ lastStep = "sendMessage"
    /\ messages # <<>>
    /\ messages[Len(messages)] = UserMessage(T_hello)
    /\ loadPc = "failed"
    /\ lastCall.op = "none"

\* C8: with idle and Hello in the catalog, playSign("hello") sets the target
\* to Hello with progress 0; the progress is not back at 0 after 1 to 19
\* ticks, and after exactly 20 ticks currentPose is Hello and progress is 0.
C8_TwentyTicks ==
    (lastCall = [op |-> "playSign", arg |-> T_hello, threw |-> FALSE]
     /\ {T_idle, T_Hello} \subseteq DOMAIN poses.entries)
    => /\ targetPose = poses.entries[T_Hello]
       /\ ticks = 0 => interpolationProgress = DZero
       /\ ticks \in 1..19 => interpolationProgress # DZero
       /\ ticks = 20 => (currentPose = poses.entries[T_Hello]
                         /\ interpolationProgress = DZero)

C8_Witness ==
    /\ lastCall = [op |-> "playSign", arg |-> T_hello, threw |-> FALSE]
    /\ ticks = 20
    /\ currentPose = Pose(HelloFrame)
    /\ interpolationProgress = DZero

\* C9: a tick where progress + speed > 1 sets progress to 0 and currentPose
\* to the target held before the tick; any other tick adds speed to progress
\* and leaves currentPose alone; no tick changes targetPose.
C9_Wraparound ==
    [][lastStep' = "animate" =>
          LET sum == DAdd(interpolationProgress, interpolationSpeed)
          IN  /\ targetPose' = targetPose
              /\ IF DGreater(sum, DOne)
                 THEN interpolationProgress' = DZero /\ currentPose' = targetPose
                 ELSE interpolationProgress' = sum /\ currentPose' = currentPose]_vars

C9_Witness ==
    /\ lastStep = "animate"
    /\ interpolationProgress = DZero
    /\ lastCall.arg = T_bye
    /\ currentPose = Pose(ByeFrame)

\* C10: the frame a tick hands to the Renderer is the interpolation of
\* currentPose and targetPose at progress, all three as the tick leaves
\* them; on a completing tick it is the frame of the target pose.
C10_RenderedFrameUsesUpdatedPoses ==
    (lastStep = "animate" /\ Truthy(drawn)) =>
        drawn.joints = lerpFrames(currentPose.frames[1], targetPose.frames[1],
                                  interpolationProgress)

\* C11 as stated: setPose(name) selects the target playSign(name) selects,
\* for every catalog and every name.
C11_SetPoseResolvesLikePlaySign ==
    (lastCall.op = "setPose" /\ ~lastCall.threw) =>
        targetPose = playSign(Engine, lastCall.arg).targetPose

\* C11: setPose looks the name up as it is given, without case
\* normalization, and falls back to idle when it is absent; it selects the
\* target playSign selects for every name that is already in normalized form.
C11_SetPoseExactLookup ==
    (lastCall.op = "setPose" /\ ~lastCall.threw) =>
        /\ targetPose = IF lastCall.arg \in DOMAIN poses.entries
                        THEN poses.entries[lastCall.arg]
                        ELSE Get(poses, T_idle)
        /\ Normalized(lastCall.arg) = lastCall.arg =>
              targetPose = playSign(Engine, lastCall.arg).targetPose

C11_Witness ==
    /\ lastCall = [op |-> "setPose", arg |-> T_hello, threw |-> FALSE]
    /\ T_Hello \in DOMAIN poses.entries
    /\ Truthy(targetPose)
    /\ targetPose = Get(poses, T_idle)

LoadResolved == loadPc \in {"loaded", "failed"}

\* C12: once the load has resolved, failed or not, the catalog has an entry
\* named idle and currentPose and targetPose are poses, never null or
\* undefined.
C12_CatalogHasIdle ==
    LoadResolved =>
        /\ T_idle \in DOMAIN poses.entries
        /\ Truthy(currentPose)
        /\ Truthy(targetPose)

\* ------------------------------------------------------------------------
\* lerpFrames on its own
\* ------------------------------------------------------------------------
\* the skeleton moved by whole units, also to negative coordinates
LerpShifts == {-400, -1, 0, 7}

ShiftedFrame(dx, dy) ==
    [key \in DOMAIN FallbackFrame |->
        Pt(FallbackFrame[key].x + dx, FallbackFrame[key].y + dy)]

\* the frames lerpFrames is given
LerpFrames ==
    {ShiftedFrame(dx, dy) : dx \in LerpShifts, dy \in LerpShifts}
    \cup {HelloFrame, ByeFrame}

\* 0.5
DHalf == Dbl(FALSE, <<0, 0, 2^16, 0>>)

\* the values of t lerpFrames is given
LerpTs == {DZero, DHalf, DOne}

InitLerp ==
    /\ poses = constructor.poses
    /\ currentPose = constructor.currentPose
    /\ targetPose = constructor.targetPose
    /\ interpolationProgress = constructor.interpolationProgress
    /\ frameCallbacks = constructor.frameCallbacks
    /\ drawn = constructor.drawn
    /\ loadPc = "fetching"
    /\ wired = FALSE
    /\ lastCall = NoCall
    /\ errors = {}
    /\ ticks = 0
    /\ lastStep = "constructor"
    /\ chatReady = FALSE
    /\ messages = state.messages
    /\ isSigning = state.isSigning
    /\ avatarStatus = <<>>
    /\ timers = <<>>
    /\ chatArea = 0
    /\ chatHistory = Null
    /\ sends = 0
    /\ lerpA \in LerpFrames
    /\ lerpB \in LerpFrames
    /\ lerpT = DZero
    /\ lerpResult = Null

\* lerpFrames(lerpA, lerpB, t) is called
ApplyLerp ==
    /\ ~Truthy(lerpResult)
    /\ \E t \in LerpTs :
          /\ lerpT' = t
          /\ lerpResult' = [type |-> "object", joints |-> lerpFrames(lerpA, lerpB, t)]
    /\ lastStep' = "lerpFrames"
    /\ UNCHANGED <<lerpA, lerpB, engineVars, chatVars>>

NextLerp == ApplyLerp

SpecLerp == InitLerp /\ [][NextLerp]_vars

\* the frame with its coordinates as doubles
AsDoubles(frame) ==
    [key \in DOMAIN frame |-> [x |-> FromInt(frame[key].x), y |-> FromInt(frame[key].y)]]

\* C13: for frames A and B over the 16 joints with integer coordinates,
\* lerp(A, B, 0) is A and lerp(A, B, 1) is B at every joint, and the result
\* has the 16 joint keys of A and B.
C13_LerpBoundary ==
    Truthy(lerpResult) =>
        /\ DOMAIN lerpResult.joints = DOMAIN lerpA
        /\ DOMAIN lerpResult.joints = DOMAIN lerpB
        /\ Cardinality(DOMAIN lerpResult.joints) = 16
        /\ lerpT = DZero => lerpResult.joints = AsDoubles(lerpA)
        /\ lerpT = DOne => lerpResult.joints = AsDoubles(lerpB)

C13_Witness ==
    /\ Truthy(lerpResult)
    /\ lerpT = DOne
    /\ lerpA = ShiftedFrame(-400, 7)
    /\ lerpB = HelloFrame
    /\ lerpResult.joints.rightWrist = [x |-> FromInt(270), y |-> FromInt(80)]

\* the two states the specification gives the Animation Controller
ControllerIdle == interpolationProgress = DZero /\ currentPose = targetPose

ControllerTransitioning ==
    /\ DGreater(interpolationProgress, DZero)
    /\ ~DGreater(interpolationProgress, DOne)
    /\ currentPose # targetPose

\* C14 as stated: in every state after startup the controller is Idle
\* (progress 0, currentPose = targetPose) or Transitioning (progress in
\* (0,1], currentPose # targetPose).
C14_IdleOrTransitioning ==
    LoadResolved => (ControllerIdle \/ ControllerTransitioning)

\* C14: after startup currentPose differs from targetPose only between a
\* setPose or playSign call that returned and the 20th tick after it, and a
\* tick that wraps progress to 0 leaves currentPose = targetPose; progress
\* itself keeps running while the poses are equal.
C14_PosesDifferOnlyAfterCall ==
    LoadResolved =>
        /\ (lastStep = "animate" /\ interpolationProgress = DZero) =>
              currentPose = targetPose
        /\ currentPose # targetPose =>
              (lastCall.op # "none" /\ ~lastCall.threw /\ ticks < 20)

C14_Witness ==
    /\ LoadResolved
    /\ lastStep = "setPose"
    /\ interpolationProgress = DZero
    /\ currentPose = Pose(FileIdleFrame)
    /\ targetPose = Pose(HelloFrame)

\* the steps that are a setPose or playSign call of the page or of a caller
CallSteps == {"playSign", "setPose", "play", "reset"}

\* C15 as stated: every setPose/playSign call sets targetPose to a pose and
\* resets progress to 0; the first call after construction (currentPose
\* still the constructor's null) also sets currentPose to that target, and
\* every later call leaves currentPose unchanged.
C15_Retargeting ==
    [][lastStep' \in CallSteps =>
          /\ Truthy(targetPose')
          /\ interpolationProgress' = DZero
          /\ IF currentPose = Null
                THEN currentPose' = targetPose'
                ELSE currentPose' = currentPose]_vars

\* the engine under a host that delivers every frame callback that is armed
\* (requestAnimationFrame runs each registered callback once); FrameDelivered
\* is the AnimationFrame step seen on the tick count, enabled exactly while a
\* callback is armed and the count has not reached MaxTicks
FrameDelivered ==
    /\ frameCallbacks > 0
    /\ ticks < MaxTicks
    /\ ticks' = ticks + 1
    /\ lastStep' = "animate"

SpecFair == Spec /\ WF_ticks(FrameDelivered)

\* C16 as stated: once the engine has started and ticks have run since the
\* last setPose/playSign call, eventually currentPose = targetPose unless a
\* further call is made first (a call resets ticks to 0), and a tick taken
\* while the poses are equal never changes currentPose.
C16_TransitionCompletes ==
    /\ (LoadResolved /\ ticks > 0) ~> (currentPose = targetPose \/ ticks = 0)
    /\ [][(lastStep' = "animate" /\ currentPose = targetPose) =>
              currentPose' = currentPose]_vars

\* C17 as stated: once the load has resolved, whatever catalog was installed
\* and whatever calls are interleaved, exactly one frame callback is pending
\* in every state: the loop never stops and never duplicates.
C17_OnePendingCallback ==
    LoadResolved => frameCallbacks = 1

\* the largest value the progress takes: the 19th running sum of 0.05,
\* 0.9500000000000003
LastProgress == Dbl(FALSE, <<419472, 419430, 124518, 0>>)

\* C18: in every reachable state, and so whenever a frame is interpolated
\* and rendered, the progress is at least 0 and at most 1.
C18_ProgressInUnitInterval ==
    /\ ~DGreater(DZero, interpolationProgress)
    /\ ~DGreater(interpolationProgress, DOne)

C18_Witness ==
    /\ lastStep = "animate"
    /\ Truthy(drawn)
    /\ interpolationProgress = LastProgress
    /\ ticks = 19

\* a tick is about to interpolate two frames whose joint-key sets differ
JointKeysDiffer ==
    /\ frameCallbacks > 0
    /\ Truthy(currentPose)
    /\ Truthy(targetPose)
    /\ DOMAIN currentPose.frames[1] # DOMAIN targetPose.frames[1]

\* C19 as stated: a tick that interpolates frames with different joint-key
\* sets renders no frame from which a joint of either frame is missing, and
\* the Scheduler keeps running: one frame callback is armed after the tick.
C19_MismatchNeverDropsJoints ==
    [][(JointKeysDiffer /\ lastStep' = "animate") =>
          /\ Truthy(drawn') =>
                (DOMAIN currentPose.frames[1] \cup DOMAIN targetPose.frames[1])
                    \subseteq DOMAIN drawn'.joints
          /\ frameCallbacks' = 1]_vars

\* the steps of the chat script alone
NextPage ==
    \/ ChatLoaded
    \/ SendMessage
    \/ ResponseTimer
    \/ ReadyTimer
    \/ ClearChat

\* the chat script under a host that fires every timer that is pending
SpecChatFair ==
    Init /\ [][NextPage]_vars /\ WF_vars(ResponseTimer) /\ WF_vars(ReadyTimer)

\* the chat shows the status Ready and no response is running
ChatIdle == chatReady /\ ~isSigning /\ avatarStatus = "Ready"

\* the last message of the list is of the given type
LastMessageIs(list, type) == list # <<>> /\ list[Len(list)].type = type

\* C20: at most one simulated response is in flight (one pending timer
\* exactly while isSigning); a sendMessage that arrives while isSigning
\* starts no response and appends no system message, only its user message;
\* the 500 ms callback of a started response appends exactly one system
\* message, the one quoting the text the response was started with, and the
\* 1500 ms callback appends none, resets isSigning and sets the status Ready;
\* every started response reaches that point.
C20_ResponseExclusion ==
    /\ [](Len(timers) <= 1 /\ (isSigning <=> timers # <<>>))
    /\ [][(lastStep' = "sendMessage" /\ isSigning) =>
             /\ timers' = timers
             /\ isSigning'
             /\ sends' = sends + 1 => LastMessageIs(messages', "user")
             /\ sends' = sends => messages' = messages]_vars
    /\ [][lastStep' = "responseCallback" =>
             /\ messages' = sliceLast(Append(messages, SystemMessage(timers[1].text)),
                                      MaxMessages)
             /\ timers' = <<Timer(1500, timers[1].text)>>
             /\ isSigning']_vars
    /\ [][lastStep' = "readyCallback" =>
             /\ messages' = messages
             /\ timers' = <<>>
             /\ ~isSigning'
             /\ avatarStatus' = "Ready"]_vars
    /\ (timers # <<>> /\ timers[1].ms = 500) ~> (timers # <<>> /\ timers[1].ms = 1500)
    /\ isSigning ~> ChatIdle

\* a second message was sent while the response to the first was running
C20_Witness ==
    /\ lastStep = "sendMessage"
    /\ isSigning
    /\ sends = 2
    /\ timers = <<Timer(1500, T_bye)>>
    /\ LastMessageIs(messages, "user")

\* sendMessage rejects the input value: empty after trim, or too long
Rejected(value) == trim(value) = <<>> \/ Len(trim(value)) > MaxMessageLength

\* list with message appended and the oldest dropped beyond MaxMessages
Pushed(list, message) == sliceLast(Append(list, message), MaxMessages)

\* C21: after every operation of the chat script state.messages holds at
\* most 25 messages; sendMessage leaves the list unchanged for a rejected
\* input and otherwise appends the user message and drops the oldest beyond
\* 25, the delayed callback does the same with its system message,
\* loadPreferences installs the last 25 stored messages and clearChat
\* empties the list.
C21_HistoryBound ==
    /\ [](Len(messages) <= MaxMessages)
    /\ [](\A value \in InputValues :
             sendMessage(Chat, value).messages =
                 IF Rejected(value) THEN messages
                 ELSE Pushed(messages, UserMessage(trim(value))))
    /\ [][lastStep' = "sendMessage" =>
             \E value \in InputValues :
                 messages' = IF Rejected(value) THEN messages
                             ELSE Pushed(messages, UserMessage(trim(value)))]_vars
    /\ [][lastStep' = "responseCallback" =>
             \E i \in 1..Len(timers) :
                 messages' = Pushed(messages, SystemMessage(timers[i].text))]_vars
    /\ [][lastStep' = "chatLoaded" =>
             \/ messages' = messages
             \/ \E stored \in StoredHistories :
                   /\ stored.type = "object"
                   /\ messages' = sliceLast(stored.list, MaxMessages)]_vars
    /\ [][lastStep' = "clearChat" => messages' = <<>>]_vars

\* a message was sent into a full history: the oldest one is gone
C21_Witness ==
    /\ lastStep = "sendMessage"
    /\ Len(messages) = MaxMessages
    /\ messages[1] = SystemMessage(T_hi)
    /\ messages[MaxMessages] = UserMessage(T_bye)

====
